---- MODULE Spec2Model ----
(***************************************************************************)
(* Memory & Retrieval Engine of Ron ("Jeff" phase 1): the Chunker, the     *)
(* EmbeddingEngine (FAISS index + identifier map, persisted as two files), *)
(* the MemoryManager (memory log + backup, ingestion, search cascade) and  *)
(* the spend guard called by every embedding request.                      *)
(*                                                                         *)
(* Texts are sequences of one-character strings.  A Python dict is a       *)
(* function; a dict key is a pair <<"int", i>> (the int i) or <<"str", i>> *)
(* (the decimal string str(i)), so that an int key and the string key JSON *)
(* turns it into are different keys, as they are in Python.  An embedding  *)
(* is a record [d, x]: d is its dimensionality and x its position on a     *)
(* line in the embedding space (all vectors of the model are collinear),   *)
(* so the squared L2 distance of two vectors is (x1 - x2)^2.               *)
(***************************************************************************)
EXTENDS Integers, Sequences, FiniteSets, TLC

(***************************************************************************)
(* Bounds of the model                                                     *)
(***************************************************************************)
MaxRows == 3        \* rows the vector index may hold
MaxLog == 2         \* entries the memory log may hold
MaxK == 2           \* largest k passed to a search
MaxSpend == 4000000 \* cap of the recorded daily total, in micro-dollars
MaxBoots == 2       \* times a process is started on the data directory
MaxDamage == 1      \* persisted files lost or damaged while no process runs

(***************************************************************************)
(* Characters and texts                                                    *)
(***************************************************************************)
Whitespace == {" ", "\n", "\t", "\r"}
Terminal == {".", "!", "?"}

IsWs(c) == c \in Whitespace

Rep(c, n) == [i \in 1..n |-> c]

Range(s) == {s[i] : i \in DOMAIN s}

\* str.lower() on the characters the model uses
LowerChar(c) ==
  CASE c = "A" -> "a"
    [] c = "B" -> "b"
    [] OTHER -> c

Lower(s) == [i \in 1..Len(s) |-> LowerChar(s[i])]

\* Python's `needle in haystack` on strings
IsSubstring(needle, hay) ==
  \E i \in 0..(Len(hay) - Len(needle)) :
    \A j \in 1..Len(needle) : hay[i + j] = needle[j]

\* str.strip(): drop leading and trailing whitespace
Strip(s) ==
  LET lead == Cardinality({i \in 1..Len(s) : \A j \in 1..i : IsWs(s[j])})
      trail == Cardinality({i \in 1..Len(s) : \A j \in i..Len(s) : IsWs(s[j])})
  IN IF lead = Len(s) THEN <<>> ELSE SubSeq(s, lead + 1, Len(s) - trail)

(***************************************************************************)
(* Chunker (chunker.py)                                                    *)
(***************************************************************************)
MAX_CHUNK_SIZE == 600

\* Chunker._normalize: newlines to spaces, whitespace runs to one space, strip
_normalize(text) ==
  LET t1 == [i \in 1..Len(text) |->
               IF text[i] \in {"\n", "\r"} THEN " " ELSE text[i]]
      idx == [i \in 1..Len(t1) |-> i]
      FirstOfRun(i) == ~IsWs(t1[i]) \/ i = 1 \/ ~IsWs(t1[i - 1])
      kept == SelectSeq(idx, FirstOfRun)
      t2 == [j \in 1..Len(kept) |->
               IF IsWs(t1[kept[j]]) THEN " " ELSE t1[kept[j]]]
  IN Strip(t2)

\* re.split(r"(?<=[.!?])\s+", text) from position pos on: a separator is a
\* maximal whitespace run that directly follows a terminal character
RECURSIVE SplitFrom(_, _)
SplitFrom(text, pos) ==
  LET starts == {i \in pos..Len(text) :
                   /\ i > 1
                   /\ IsWs(text[i])
                   /\ text[i - 1] \in Terminal}
  IN IF starts = {}
       THEN <<SubSeq(text, pos, Len(text))>>
       ELSE LET s == CHOOSE i \in starts : \A j \in starts : i <= j
                run == Cardinality({e \in s..Len(text) :
                                      \A j \in s..e : IsWs(text[j])})
            IN <<SubSeq(text, pos, s - 1)>> \o SplitFrom(text, s + run)

\* Chunker._split_sentences: split, strip every piece, drop the empty ones
_split_sentences(text) ==
  LET pieces == SplitFrom(text, 1)
      stripped == [i \in 1..Len(pieces) |-> Strip(pieces[i])]
      NonEmpty(s) == s # <<>>
  IN SelectSeq(stripped, NonEmpty)

\* GroupLoop without the 1 counted for the joining space
RECURSIVE GroupLoop_no_separator(_, _, _, _)
GroupLoop_no_separator(sentences, i, chunks, buffer) ==
  IF i > Len(sentences) THEN <<chunks, buffer>>
  ELSE LET sentence == sentences[i]
       IN IF Len(buffer) + Len(sentence) > MAX_CHUNK_SIZE
            THEN GroupLoop_no_separator(
                   sentences, i + 1,
                   IF buffer # <<>> THEN Append(chunks, Strip(buffer))
                                    ELSE chunks,
                   sentence)
            ELSE GroupLoop_no_separator(
                   sentences, i + 1, chunks,
                   IF buffer # <<>> THEN buffer \o <<" ">> \o sentence
                                    ELSE sentence)

\* the loop of Chunker._group from sentence i on; returns <<chunks, buffer>>
RECURSIVE GroupLoop(_, _, _, _)
GroupLoop(sentences, i, chunks, buffer) ==
  IF i > Len(sentences) THEN <<chunks, buffer>>
  ELSE LET sentence == sentences[i]
       IN IF Len(buffer) + Len(sentence) + 1 > MAX_CHUNK_SIZE
            THEN GroupLoop(sentences, i + 1,
                           IF buffer # <<>> THEN Append(chunks, Strip(buffer))
                                            ELSE chunks,
                           sentence)
            ELSE GroupLoop(sentences, i + 1, chunks,
                           IF buffer # <<>> THEN buffer \o <<" ">> \o sentence
                                            ELSE sentence)

\* _group without the last buffer added after the loop
_group_no_tail(sentences) ==
  GroupLoop(sentences, 1, <<>>, <<>>)[1]

\* Chunker._group
_group(sentences) ==
  LET r == GroupLoop(sentences, 1, <<>>, <<>>)
  IN IF Strip(r[2]) # <<>> THEN Append(r[1], Strip(r[2])) ELSE r[1]

\* Chunker.chunk_text
chunk_text(text) ==
  IF text = <<>> \/ Strip(text) = <<>> THEN <<>>
  ELSE CHOOSE chunks \in
         {_group(sentences) :
            sentences \in {_split_sentences(cleaned) :
                             cleaned \in {_normalize(text)}}} : TRUE

(***************************************************************************)
(* Python dicts, JSON                                                      *)
(***************************************************************************)
IntKey(i) == <<"int", i>>
StrKey(i) == <<"str", i>>

EmptyDict == [k \in {} |-> k]

\* d[k] = v
Put(d, k, v) == [x \in (DOMAIN d) \cup {k} |-> IF x = k THEN v ELSE d[x]]

\* json.loads(json.dumps(id_map)): every key becomes its string; an int key
\* was inserted after every loaded string key, so it wins a duplicate
JsonMap(d) ==
  [k \in {StrKey(j[2]) : j \in DOMAIN d} |->
     IF IntKey(k[2]) \in DOMAIN d THEN d[IntKey(k[2])] ELSE d[k]]

(***************************************************************************)
(* Files                                                                   *)
(***************************************************************************)
Missing == [st |-> "missing"]
Corrupt == [st |-> "corrupt"]

\* memory.json holding a JSON document that is not a list
NotAList == [st |-> "object"]
Ok(content) == [st |-> "ok", data |-> content]

(***************************************************************************)
(* Spend guard (spend_guard.py); money in micro-dollars, which is what     *)
(* round(x, 6) keeps                                                       *)
(***************************************************************************)
DAILY_SPEND_LIMIT == 2000000

\* PRICES["text-embedding-3-small"] = 0.02 / 1_000_000 dollars a token
TokensPerMicroDollar == 50

\* round(previous + tokens * price, 6), ties to even
RoundedTotal(previous, tokens) ==
  LET n == previous * TokensPerMicroDollar + tokens
      q == n \div TokensPerMicroDollar
      r == n % TokensPerMicroDollar
  IN IF 2 * r > TokensPerMicroDollar
        \/ (2 * r = TokensPerMicroDollar /\ q % 2 = 1)
       THEN q + 1 ELSE q

\* log_embedding_cost and _apply_cost: the total written to the spend log,
\* and whether the cap check raises
log_embedding_cost(previous, tokens) ==
  IF tokens <= 0 THEN [total |-> previous, raised |-> FALSE]
  ELSE LET new_total == RoundedTotal(previous, tokens)
       IN [total |-> new_total, raised |-> new_total > DAILY_SPEND_LIMIT]

(***************************************************************************)
(* Embedding collaborator                                                  *)
(***************************************************************************)
EMBED_DIM == 1536

TokenCounts == {0, 100000000}

\* the length of an embedding that the index was not made for
\* (text-embedding-3-large)
OTHER_DIM == 3072

\* what one embeddings.create call may do: fail, or return the vector of the
\* text and a token count; "crash" is a return after which the process dies
\* inside _save_index, between the two writes; "dim" is the return of a
\* vector of OTHER_DIM numbers
ApiFail == [kind |-> "fail", tokens |-> 0]
Outcomes ==
  {ApiFail} \cup [kind : {"ok", "crash", "dim"}, tokens : TokenCounts]

\* the same for the embedding request of a search
QueryOutcomes == {ApiFail} \cup [kind : {"ok"}, tokens : TokenCounts]

\* EmbeddingEngine.embed_text: x is the position of the vector of the text
embed_text(spend, x, o) ==
  IF o.kind = "fail"
    THEN [ok |-> FALSE, spend |-> spend, vec |-> [d |-> EMBED_DIM, x |-> x]]
    ELSE LET g == log_embedding_cost(spend, o.tokens)
         IN [ok |-> ~g.raised, spend |-> g.total,
             vec |-> [d |-> IF o.kind = "dim" THEN OTHER_DIM ELSE EMBED_DIM,
                      x |-> x]]

(***************************************************************************)
(* Vector index (faiss.IndexFlatL2)                                        *)
(***************************************************************************)
EmptyIndex == [d |-> EMBED_DIM, rows |-> <<>>]

Dist(a, b) == (a - b) * (a - b)

\* index.search(vector, k): the labels (row numbers from 0) of the k nearest
\* rows by ascending distance, equal distances by row number, padded with -1
faiss_search(index, vec, k) ==
  LET n == Len(index.rows)
      Before(i, j) ==
        \/ Dist(index.rows[i], vec.x) < Dist(index.rows[j], vec.x)
        \/ Dist(index.rows[i], vec.x) = Dist(index.rows[j], vec.x) /\ i < j
      Rank(j) == 1 + Cardinality({i \in 1..n : Before(i, j)})
  IN [p \in 1..k |->
        IF p <= n THEN (CHOOSE j \in 1..n : Rank(j) = p) - 1 ELSE -1]

(***************************************************************************)
(* Inputs.  The state holds a text by its name; TextOf gives its           *)
(* characters.  The names are closed under chunking: every chunk of a      *)
(* named text is a named text.                                             *)
(***************************************************************************)
Sentence300(c) == Rep(c, 299) \o <<".">>

TextOf ==
  [blank |-> <<" ", "\n">>,
   short |-> <<"A", "b", ".">>,
   long |-> Sentence300("a") \o <<" ", "\n">> \o Sentence300("B"),
   a300 |-> Sentence300("a"),
   b300 |-> Sentence300("B")]

TextNames == DOMAIN TextOf

NameOf(characters) == CHOOSE n \in TextNames : TextOf[n] = characters

\* the texts handed to MemoryManager.add
InputTexts == {"blank", "short", "long"}

\* Chunker.chunk_text on every input text, the chunks by name
ChunksOf ==
  [t \in InputTexts |->
     LET chunks == chunk_text(TextOf[t])
     IN [i \in 1..Len(chunks) |-> NameOf(chunks[i])]]

Queries == {<<"b">>, <<"a", "B">>}

\* the embedding collaborator is a function of the text: the position of the
\* vector of every chunk and of every query
ChunkPoint == [short |-> 0, a300 |-> 3, b300 |-> 5, blank |-> 9, long |-> 4]
QueryPoint == [q \in Queries |-> IF q = <<"b">> THEN 1 ELSE 4]

\* the calls of MemoryManager.add the model makes: text, source, metadata and
\* the time of the call
AddCalls ==
  {[text |-> "blank", source |-> "chat", metadata |-> EmptyDict,
    timestamp |-> "t1"],
   [text |-> "short", source |-> "chat",
    metadata |-> [k \in {"topic", "source"} |->
                    IF k = "topic" THEN "x" ELSE "web"],
    timestamp |-> "t1"],
   [text |-> "long", source |-> "file", metadata |-> EmptyDict,
    timestamp |-> "t2"]}

\* {"timestamp": timestamp, "source": source, **metadata}
MergeMeta(timestamp, source, metadata) ==
  [k \in {"timestamp", "source"} \cup DOMAIN metadata |->
     IF k \in DOMAIN metadata THEN metadata[k]
     ELSE IF k = "timestamp" THEN timestamp ELSE source]

(***************************************************************************)
(* EmbeddingEngine (embeddings.py).  A store is the record of the engine's *)
(* fields and of the files it writes:                                      *)
(*   index, id_map           the in-memory index and identifier map        *)
(*   fIndex, fMap            vector_index.faiss and vector_index.map.json  *)
(*   fChunks                 text_chunks/chunk_<n>.txt, by n               *)
(*   spend                   today's total in spend_log.json               *)
(***************************************************************************)
\* EmbeddingEngine._load_index: <<index, id_map>>
_load_index(fIndex, fMap) ==
  IF fIndex.st # "missing" /\ fMap.st # "missing"
    THEN IF fIndex.st = "corrupt" THEN <<EmptyIndex, EmptyDict>>
         ELSE IF fMap.st = "corrupt" THEN <<fIndex.data, EmptyDict>>
         ELSE <<fIndex.data, fMap.data>>
    ELSE <<EmptyIndex, EmptyDict>>

\* add_chunk with the identifier map updated and both files saved before the
\* vector is handed to index.add
add_chunk_map_first(S, text, metadata, o) ==
  LET n == Cardinality(DOMAIN S.id_map)
      chunk_id == n + 1
      written == [S EXCEPT !.fChunks = Put(S.fChunks, chunk_id, text)]
      e == embed_text(S.spend, ChunkPoint[text], o)
      charged == [written EXCEPT !.spend = e.spend]
      index2 == [S.index EXCEPT !.rows = Append(S.index.rows, e.vec.x)]
      id_map2 == Put(S.id_map, IntKey(n),
                     [chunk_id |-> chunk_id, text |-> text,
                      metadata |-> metadata])
  IN IF ~e.ok
       THEN [S |-> charged, status |-> "error"]
       ELSE IF e.vec.d # S.index.d
         THEN [S |-> [charged EXCEPT !.id_map = id_map2,
                                     !.fIndex = Ok(S.index),
                                     !.fMap = Ok(JsonMap(id_map2))],
               status |-> "rejected"]
       ELSE IF o.kind = "crash"
         THEN [S |-> [charged EXCEPT !.index = index2, !.id_map = id_map2,
                                     !.fIndex = Ok(index2)],
               status |-> "crash"]
         ELSE [S |-> [charged EXCEPT !.index = index2, !.id_map = id_map2,
                                     !.fIndex = Ok(index2),
                                     !.fMap = Ok(JsonMap(id_map2))],
               status |-> "ok"]

\* EmbeddingEngine.add_chunk with the outcome o of its embedding request;
\* status is "ok", "error" (embed_text raised), "rejected" (index.add raised
\* on the length of the vector) or "crash" (the process died in _save_index
\* after writing the index file)
add_chunk(S, text, metadata, o) ==
  LET n == Cardinality(DOMAIN S.id_map)
      chunk_id == n + 1
      written == [S EXCEPT !.fChunks = Put(S.fChunks, chunk_id, text)]
      e == embed_text(S.spend, ChunkPoint[text], o)
      charged == [written EXCEPT !.spend = e.spend]
      index2 == [S.index EXCEPT !.rows = Append(S.index.rows, e.vec.x)]
      id_map2 == Put(S.id_map, IntKey(n),
                     [chunk_id |-> chunk_id, text |-> text,
                      metadata |-> metadata])
  IN IF ~e.ok
       THEN [S |-> charged, status |-> "error"]
       ELSE IF e.vec.d # S.index.d
         THEN [S |-> charged, status |-> "rejected"]
       ELSE IF o.kind = "crash"
         THEN [S |-> [charged EXCEPT !.index = index2, !.id_map = id_map2,
                                     !.fIndex = Ok(index2)],
               status |-> "crash"]
         ELSE [S |-> [charged EXCEPT !.index = index2, !.id_map = id_map2,
                                     !.fIndex = Ok(index2),
                                     !.fMap = Ok(JsonMap(id_map2))],
               status |-> "ok"]

\* Hits with every hit inserted at the front of results instead of appended
Hits_prepend(id_map, labels) ==
  LET Known(l) == IntKey(l) \in DOMAIN id_map
      known == SelectSeq(labels, Known)
  IN [i \in 1..Len(known) |-> id_map[IntKey(known[Len(known) + 1 - i])]]

\* the loop of EmbeddingEngine.search over the labels faiss returned
Hits(id_map, labels) ==
  LET Known(l) == IntKey(l) \in DOMAIN id_map
      known == SelectSeq(labels, Known)
  IN [i \in 1..Len(known) |-> id_map[IntKey(known[i])]]

\* search with the embedding requested before the emptiness test
search_embed_first(S, query, k, o) ==
  LET e == embed_text(S.spend, QueryPoint[query], o)
      charged == [S EXCEPT !.spend = e.spend]
  IN IF ~e.ok \/ e.vec.d # S.index.d
       THEN [S |-> charged, status |-> "error", out |-> <<>>, calls |-> 1]
       ELSE IF DOMAIN S.id_map = {}
         THEN [S |-> charged, status |-> "ok", out |-> <<>>, calls |-> 1]
         ELSE [S |-> charged, status |-> "ok",
               out |-> Hits(S.id_map, faiss_search(S.index, e.vec, k)),
               calls |-> 1]

\* EmbeddingEngine.search with the outcome o of its embedding request
search(S, query, k, o) ==
  IF DOMAIN S.id_map = {}
    THEN [S |-> S, status |-> "ok", out |-> <<>>, calls |-> 0]
    ELSE LET e == embed_text(S.spend, QueryPoint[query], o)
             charged == [S EXCEPT !.spend = e.spend]
         IN IF ~e.ok \/ e.vec.d # S.index.d
              THEN [S |-> charged, status |-> "error", out |-> <<>>,
                    calls |-> 1]
              ELSE [S |-> charged, status |-> "ok",
                    out |-> Hits(S.id_map, faiss_search(S.index, e.vec, k)),
                    calls |-> 1]

(***************************************************************************)
(* MemoryManager (memory_manager.py)                                       *)
(***************************************************************************)
\* core.config.ALLOW_MEMORY_WRITE
ALLOW_MEMORY_WRITE == TRUE

\* MemoryManager._load_memory: the document of memory.json when the file
\* exists, parses and is a list, [] otherwise
_load_memory(fMem) == IF fMem.st = "ok" THEN fMem.data ELSE <<>>

\* AddLoop with every chunk record inserted at the front of chunk_records
RECURSIVE AddLoop_prepend(_, _, _, _, _, _)
AddLoop_prepend(S, chunks, i, meta, outs, chunk_records) ==
  IF i > Len(chunks)
    THEN [S |-> S, status |-> "ok", pos |-> 0, chunk_records |-> chunk_records]
    ELSE LET r == add_chunk(S, chunks[i], meta, outs[i])
         IN IF r.status # "ok"
              THEN [S |-> r.S, status |-> r.status, pos |-> i,
                    chunk_records |-> chunk_records]
              ELSE AddLoop_prepend(r.S, chunks, i + 1, meta, outs,
                                   <<[text |-> chunks[i], metadata |-> meta]>>
                                     \o chunk_records)

\* step 2 of MemoryManager.add from chunk i on: embed and store the chunks
\* until one add_chunk does not return
RECURSIVE AddLoop(_, _, _, _, _, _)
AddLoop(S, chunks, i, meta, outs, chunk_records) ==
  IF i > Len(chunks)
    THEN [S |-> S, status |-> "ok", pos |-> 0, chunk_records |-> chunk_records]
    ELSE LET r == add_chunk(S, chunks[i], meta, outs[i])
         IN IF r.status # "ok"
              THEN [S |-> r.S, status |-> r.status, pos |-> i,
                    chunk_records |-> chunk_records]
              ELSE AddLoop(r.S, chunks, i + 1, meta, outs,
                           Append(chunk_records,
                                  [text |-> chunks[i], metadata |-> meta]))

\* KeywordMatch without the two lower() calls
KeywordMatch_case_sensitive(query, text) == IsSubstring(query, text)

\* query.lower() in entry["text"].lower()
KeywordMatch(query, text) == IsSubstring(Lower(query), Lower(text))

\* KeywordMatch on the inputs of the model
MatchTable ==
  [q \in Queries |-> [t \in InputTexts |-> KeywordMatch(q, TextOf[t])]]

\* the keyword fallback of MemoryManager.search
KeywordHits(memory, query, k) ==
  LET Matches(entry) == MatchTable[query][entry.text]
      keyword_hits == SelectSeq(memory, Matches)
  IN SubSeq(keyword_hits, 1, IF k < Len(keyword_hits) THEN k
                             ELSE Len(keyword_hits))

(***************************************************************************)
(* State                                                                   *)
(***************************************************************************)
VARIABLES
  pc,           \* "up": a MemoryManager is constructed; "down": no process
  index,        \* EmbeddingEngine.index
  id_map,       \* EmbeddingEngine.id_map
  memory,       \* MemoryManager.memory
  allow_write,  \* MemoryManager.allow_write
  fIndex,       \* data/vector_index.faiss
  fMap,         \* data/vector_index.map.json
  fChunks,      \* data/text_chunks/chunk_<n>.txt
  fMem,         \* data/memory.json
  fBackup,      \* data/memory_backup.json
  spend,        \* today's total in data/spend_log.json, micro-dollars
  boots,        \* processes started so far
  damages,      \* files lost or damaged so far
  ret,          \* what the last call did and returned
  chunker_text,   \* the pieces of the text a Chunker is given
  chunker_chunks, \* what chunk_text returned for it ("none": not called)
  guard_total,    \* today's total in the spend log, the guard used alone
  guard_tokens,   \* the tokens whose cost was handed to _apply_cost today
  guard_raised,   \* whether the last cost-logging call raised
  guard_calls     \* cost-logging calls made today

\* the state of the memory manager and its files
mvars == <<pc, index, id_map, memory, allow_write, fIndex, fMap, fChunks,
           fMem, fBackup, spend, boots, damages, ret>>

\* the state of a Chunker used on its own
cvars == <<chunker_text, chunker_chunks>>

\* the state of the spend guard used on its own
gvars == <<guard_total, guard_tokens, guard_raised, guard_calls>>

vars == <<mvars, cvars, gvars>>

Store == [index |-> index, id_map |-> id_map, fIndex |-> fIndex,
          fMap |-> fMap, fChunks |-> fChunks, spend |-> spend]

\* the fields of ret: the call, how it ended ("ok": it returned, "error": it
\* raised on a failed embedding request, "rejected": it raised on the length
\* of the vector, "crash": the process died in it; add: "not written"),
\* the number of embedding requests it made, the position of the chunk whose
\* add_chunk did not return (0: none), and the arguments: the text and the
\* write flag of an add, the query and k of a search.  The value a search
\* returned is not kept: it is a function of args and the state.
Ret(op, status, calls, pos, args) ==
  [op |-> op, status |-> status, calls |-> calls, pos |-> pos, args |-> args]

NoArgs == <<>>

\* the process is gone: nothing of its memory is left
Down ==
  /\ pc' = "down"
  /\ index' = EmptyIndex
  /\ id_map' = EmptyDict
  /\ memory' = <<>>
  /\ allow_write' = TRUE

(***************************************************************************)
(* Init: the first start, on an empty data directory                       *)
(***************************************************************************)
Init ==
  /\ pc = "up"
  /\ index = EmptyIndex
  /\ id_map = EmptyDict
  /\ memory = <<>>
  /\ allow_write = TRUE
  /\ fIndex = Missing
  /\ fMap = Missing
  /\ fChunks = EmptyDict
  /\ fMem = Missing
  /\ fBackup = Missing
  /\ spend = 0
  /\ boots = 1
  /\ damages = 0
  /\ ret = Ret("start", "ok", 0, 0, NoArgs)
  /\ chunker_text = <<>>
  /\ chunker_chunks = "none"
  /\ guard_total = 0
  /\ guard_tokens = 0
  /\ guard_raised = FALSE
  /\ guard_calls = 0

(***************************************************************************)
(* Actions                                                                 *)
(***************************************************************************)
\* Start with the log taken from the backup when memory.json gives none
Start_restore_backup ==
  /\ pc = "down"
  /\ boots < MaxBoots
  /\ boots' = boots + 1
  /\ pc' = "up"
  /\ index' = _load_index(fIndex, fMap)[1]
  /\ id_map' = _load_index(fIndex, fMap)[2]
  /\ memory' = IF fMem.st = "ok" THEN _load_memory(fMem)
               ELSE _load_memory(fBackup)
  /\ allow_write' = TRUE
  /\ ret' = Ret("start", "ok", 0, 0, NoArgs)
  /\ UNCHANGED <<fIndex, fMap, fChunks, fMem, fBackup, spend, damages, cvars,
                 gvars>>

\* MemoryManager.__init__ (and EmbeddingEngine.__init__ inside it)
Start ==
  /\ pc = "down"
  /\ boots < MaxBoots
  /\ boots' = boots + 1
  /\ pc' = "up"
  /\ index' = _load_index(fIndex, fMap)[1]
  /\ id_map' = _load_index(fIndex, fMap)[2]
  /\ memory' = _load_memory(fMem)
  /\ allow_write' = TRUE
  /\ ret' = Ret("start", "ok", 0, 0, NoArgs)
  /\ UNCHANGED <<fIndex, fMap, fChunks, fMem, fBackup, spend, damages, cvars,
                 gvars>>

\* the process exits or is killed between two calls
Stop ==
  /\ pc = "up"
  /\ Down
  /\ ret' = Ret("stop", "ok", 0, 0, NoArgs)
  /\ UNCHANGED <<fIndex, fMap, fChunks, fMem, fBackup, spend, boots, damages,
                 cvars, gvars>>

\* while no process runs, one of the persisted files is lost or damaged
Damage ==
  /\ pc = "down"
  /\ damages < MaxDamage
  /\ damages' = damages + 1
  /\ \E f \in {"index", "map", "mem"}, d \in {Missing, Corrupt, NotAList} :
       /\ d = NotAList => f = "mem"
       /\ fIndex' = IF f = "index" /\ fIndex.st = "ok" THEN d ELSE fIndex
       /\ fMap' = IF f = "map" /\ fMap.st = "ok" THEN d ELSE fMap
       /\ fMem' = IF f = "mem" /\ fMem.st = "ok" THEN d ELSE fMem
       /\ <<fIndex', fMap', fMem'>> # <<fIndex, fMap, fMem>>
       /\ ret' = Ret("damage", "ok", 0, 0, NoArgs)
  /\ UNCHANGED <<pc, index, id_map, memory, allow_write, fChunks, fBackup,
                 spend, boots, cvars, gvars>>

\* only the outcomes up to the first request that fails or crashes matter
Canonical(outs) ==
  \A i \in DOMAIN outs : \A j \in DOMAIN outs :
    (i < j /\ outs[i].kind # "ok") => outs[j] = ApiFail

\* _save_memory with the backup written from the log as it was before the
\* last append
_save_memory_stale_backup(mem) ==
  <<Ok(mem), Ok(SubSeq(mem, 1, Len(mem) - 1))>>

\* MemoryManager._save_memory: the contents of memory.json and of the backup
_save_memory(mem) == <<Ok(mem), Ok(mem)>>

\* add with the entry appended and saved before the chunks are embedded
add_append_first(S, mem, fm, fb, allow, call, outs) ==
  IF ~allow \/ ~ALLOW_MEMORY_WRITE
    THEN [S |-> S, memory |-> mem, fMem |-> fm, fBackup |-> fb,
          status |-> "not written", pos |-> 0, calls |-> 0]
    ELSE
      LET chunks == ChunksOf[call.text]
          meta == MergeMeta(call.timestamp, call.source, call.metadata)
          r == AddLoop(S, chunks, 1, meta, outs, <<>>)
          entry == [timestamp |-> call.timestamp, text |-> call.text,
                    source |-> call.source, metadata |-> call.metadata,
                    chunks |-> [i \in 1..Len(chunks) |->
                                  [text |-> chunks[i], metadata |-> meta]]]
          memory2 == Append(mem, entry)
      IN [S |-> r.S, memory |-> memory2,
          fMem |-> _save_memory(memory2)[1],
          fBackup |-> _save_memory(memory2)[2],
          status |-> r.status, pos |-> r.pos,
          calls |-> IF r.pos = 0 THEN Len(chunks) ELSE r.pos]

\* add with the entry inserted at the front of the log
add_insert_front(S, mem, fm, fb, allow, call, outs) ==
  IF ~allow \/ ~ALLOW_MEMORY_WRITE
    THEN [S |-> S, memory |-> mem, fMem |-> fm, fBackup |-> fb,
          status |-> "not written", pos |-> 0, calls |-> 0]
    ELSE
      LET chunks == ChunksOf[call.text]
          meta == MergeMeta(call.timestamp, call.source, call.metadata)
          r == AddLoop(S, chunks, 1, meta, outs, <<>>)
          entry == [timestamp |-> call.timestamp, text |-> call.text,
                    source |-> call.source, metadata |-> call.metadata,
                    chunks |-> r.chunk_records]
          memory2 == <<entry>> \o mem
      IN IF r.status = "ok"
           THEN [S |-> r.S, memory |-> memory2,
                 fMem |-> _save_memory(memory2)[1],
                 fBackup |-> _save_memory(memory2)[2],
                 status |-> "ok", pos |-> 0, calls |-> Len(chunks)]
           ELSE [S |-> r.S, memory |-> mem, fMem |-> fm, fBackup |-> fb,
                 status |-> r.status, pos |-> r.pos, calls |-> r.pos]

\* add with the write gate tested after the chunks have been embedded and
\* stored
add_gate_late(S, mem, fm, fb, allow, call, outs) ==
  LET chunks == ChunksOf[call.text]
      meta == MergeMeta(call.timestamp, call.source, call.metadata)
      r == AddLoop(S, chunks, 1, meta, outs, <<>>)
      entry == [timestamp |-> call.timestamp, text |-> call.text,
                source |-> call.source, metadata |-> call.metadata,
                chunks |-> r.chunk_records]
      memory2 == Append(mem, entry)
  IN IF r.status # "ok"
       THEN [S |-> r.S, memory |-> mem, fMem |-> fm, fBackup |-> fb,
             status |-> r.status, pos |-> r.pos, calls |-> r.pos]
       ELSE IF ~allow \/ ~ALLOW_MEMORY_WRITE
         THEN [S |-> r.S, memory |-> mem, fMem |-> fm, fBackup |-> fb,
               status |-> "not written", pos |-> 0, calls |-> Len(chunks)]
         ELSE [S |-> r.S, memory |-> memory2,
               fMem |-> _save_memory(memory2)[1],
               fBackup |-> _save_memory(memory2)[2],
               status |-> "ok", pos |-> 0, calls |-> Len(chunks)]

\* MemoryManager.add(text, source, metadata) at time timestamp, on the store
\* S, the log mem and the log files fm and fb, with the outcomes outs of its
\* embedding requests; calls counts the embedding requests made
add(S, mem, fm, fb, allow, call, outs) ==
  IF ~allow \/ ~ALLOW_MEMORY_WRITE
    THEN [S |-> S, memory |-> mem, fMem |-> fm, fBackup |-> fb,
          status |-> "not written", pos |-> 0, calls |-> 0]
    ELSE
      LET chunks == ChunksOf[call.text]
          meta == MergeMeta(call.timestamp, call.source, call.metadata)
          r == AddLoop(S, chunks, 1, meta, outs, <<>>)
          entry == [timestamp |-> call.timestamp, text |-> call.text,
                    source |-> call.source, metadata |-> call.metadata,
                    chunks |-> r.chunk_records]
          memory2 == Append(mem, entry)
      IN IF r.status = "ok"
           THEN [S |-> r.S, memory |-> memory2,
                 fMem |-> _save_memory(memory2)[1],
                 fBackup |-> _save_memory(memory2)[2],
                 status |-> "ok", pos |-> 0, calls |-> Len(chunks)]
           ELSE [S |-> r.S, memory |-> mem, fMem |-> fm, fBackup |-> fb,
                 status |-> r.status, pos |-> r.pos, calls |-> r.pos]

\* the ingestion call of the callers (main.py, the brains):
\* add_memory_entry(text, source, metadata, write); with write it is add
add_memory_entry(S, mem, fm, fb, allow, call, write, outs) ==
  IF ~write
    THEN [S |-> S, memory |-> mem, fMem |-> fm, fBackup |-> fb,
          status |-> "not written", pos |-> 0, calls |-> 0]
    ELSE add(S, mem, fm, fb, allow, call, outs)

Add ==
  /\ pc = "up"
  /\ \E call \in AddCalls, write \in BOOLEAN :
       /\ (allow_write /\ write) =>
            /\ Len(index.rows) + Len(ChunksOf[call.text]) <= MaxRows
            /\ Len(memory) < MaxLog
       /\ \E outs \in [1..Len(ChunksOf[call.text]) -> Outcomes] :
            /\ Canonical(outs)
            /\ \E r \in {add_memory_entry(Store, memory, fMem, fBackup,
                                         allow_write, call, write, outs)} :
                  /\ r.S.spend <= MaxSpend
                  /\ fIndex' = r.S.fIndex
                  /\ fMap' = r.S.fMap
                  /\ fChunks' = r.S.fChunks
                  /\ spend' = r.S.spend
                  /\ fMem' = r.fMem
                  /\ fBackup' = r.fBackup
                  /\ IF r.status = "crash"
                       THEN Down
                       ELSE /\ index' = r.S.index
                            /\ id_map' = r.S.id_map
                            /\ memory' = r.memory
                            /\ UNCHANGED <<pc, allow_write>>
                  /\ ret' = Ret("add", r.status, r.calls, r.pos,
                              <<call.text, write>>)
  /\ UNCHANGED <<boots, damages, cvars, gvars>>

\* manager_search with a failure of the store search caught and answered by
\* the keyword fallback
manager_search_swallow(S, mem, query, k, o) ==
  LET r == search(S, query, k, o)
  IN [S |-> r.S, status |-> "ok", calls |-> r.calls,
      store_out |-> r.out,
      out |-> IF r.out = <<>> THEN KeywordHits(mem, query, k) ELSE r.out]

\* MemoryManager.search(query, k) with the outcome o of the embedding
\* request: what EmbeddingEngine.search did (S, status, calls, store_out) and
\* the value returned (out)
manager_search(S, mem, query, k, o) ==
  LET r == search(S, query, k, o)
  IN [S |-> r.S, status |-> r.status, calls |-> r.calls,
      store_out |-> r.out,
      out |-> IF r.status # "ok" THEN <<>>
              ELSE IF r.out = <<>> THEN KeywordHits(mem, query, k)
              ELSE r.out]

Search ==
  /\ pc = "up"
  /\ \E query \in Queries, k \in 1..MaxK, o \in QueryOutcomes :
       LET r == manager_search(Store, memory, query, k, o)
       IN /\ r.S.spend <= MaxSpend
          /\ spend' = r.S.spend
          /\ ret' = Ret("search", r.status, r.calls, 0, <<query, k>>)
  /\ UNCHANGED <<pc, index, id_map, memory, allow_write, fIndex, fMap,
                 fChunks, fMem, fBackup, boots, damages, cvars,
                 gvars>>

\* MemoryManager.set_write_mode(allow)
SetWriteMode ==
  /\ pc = "up"
  /\ \E allow \in BOOLEAN :
       /\ allow_write' = allow
       /\ ret' = Ret("set_write_mode", "ok", 0, 0, NoArgs)
  /\ UNCHANGED <<pc, index, id_map, memory, fIndex, fMap, fChunks, fMem,
                 fBackup, spend, boots, damages, cvars, gvars>>

\* MemoryManager.latest(n): self.memory[-n:]
latest(mem, n) ==
  IF n = 0 \/ n >= Len(mem) THEN mem
  ELSE SubSeq(mem, Len(mem) - n + 1, Len(mem))

Latest ==
  /\ pc = "up"
  /\ \E n \in 0..MaxK :
       /\ latest(memory, n) \in Seq(Range(memory))
       /\ ret' = Ret("latest", "ok", 0, 0, NoArgs)
  /\ UNCHANGED <<pc, index, id_map, memory, allow_write, fIndex, fMap,
                 fChunks, fMem, fBackup, spend, boots, damages, cvars,
                 gvars>>

Next ==
  \/ Start
  \/ Stop
  \/ Damage
  \/ Add
  \/ Search
  \/ SetWriteMode
  \/ Latest

Spec == Init /\ [][Next]_vars

(***************************************************************************)
(* The Chunker on its own: chunk_text applied to texts built from pieces   *)
(***************************************************************************)
MaxPieces == 4      \* pieces a text given to the Chunker is built from

\* a piece of text: len characters that are no whitespace, the last one end
\* (none when len = 0), followed by the whitespace sep
Pieces ==
  {[len |-> 0, end |-> "a", sep |-> <<" ", "\t">>],
   [len |-> 2, end |-> ".", sep |-> <<" ">>],
   [len |-> 2, end |-> "?", sep |-> <<>>],
   [len |-> 299, end |-> "!", sep |-> <<" ">>],
   [len |-> 300, end |-> ".", sep |-> <<" ", "\n">>],
   [len |-> 300, end |-> "a", sep |-> <<"\r", " ">>],
   [len |-> 601, end |-> ".", sep |-> <<" ">>]}

\* the characters of a piece that are no whitespace
Body(p) == IF p.len = 0 THEN <<>> ELSE Rep("a", p.len - 1) \o <<p.end>>

\* the text the pieces spell
RECURSIVE TextFrom(_)
TextFrom(pieces) ==
  IF pieces = <<>> THEN <<>>
  ELSE Body(Head(pieces)) \o Head(pieces).sep \o TextFrom(Tail(pieces))

ChunkInit ==
  /\ Init

\* a caller puts together the text it will hand to the Chunker
Compose ==
  /\ chunker_chunks = "none"
  /\ Len(chunker_text) < MaxPieces
  /\ \E p \in Pieces : chunker_text' = Append(chunker_text, p)
  /\ UNCHANGED <<mvars, chunker_chunks, gvars>>

\* chunks = Chunker().chunk_text(text)
Chunk ==
  /\ chunker_chunks = "none"
  /\ \E text \in {TextFrom(chunker_text)} :
       chunker_chunks' = chunk_text(text)
  /\ UNCHANGED <<mvars, chunker_text, gvars>>

ChunkNext ==
  \/ Compose
  \/ Chunk

ChunkSpec == ChunkInit /\ [][ChunkNext]_vars

(***************************************************************************)
(* The spend guard used on its own: cost-logging calls of one day          *)
(***************************************************************************)
\* cost-logging calls in one day
MaxGuardCalls == 5

\* prompt token counts reported to log_embedding_cost; none of them lands
\* the running total on a half micro-dollar
GuardTokens == {0, 10, 40, 100, 60000000}

SpendInit ==
  /\ Init

\* log_embedding_cost(model, tokens), with today's total read from and
\* written to the spend log by _apply_cost
LogEmbeddingCost ==
  /\ guard_calls < MaxGuardCalls
  /\ \E tokens \in GuardTokens :
       \E r \in {log_embedding_cost(guard_total, tokens)} :
         /\ guard_total' = r.total
         /\ guard_raised' = r.raised
         /\ guard_tokens' = IF tokens <= 0 THEN guard_tokens
                            ELSE guard_tokens + tokens
  /\ guard_calls' = guard_calls + 1
  /\ UNCHANGED <<mvars, cvars>>

SpendNext ==
  \/ LogEmbeddingCost

SpendSpec == SpendInit /\ [][SpendNext]_vars



(***************************************************************************)
(* Properties                                                              *)
(***************************************************************************)
\* an embedding request that returns, without cost
Returned == [kind |-> "ok", tokens |-> 0]

\* the store a fresh EmbeddingEngine has after loading the persisted files
Reloaded ==
  [Store EXCEPT !.index = _load_index(fIndex, fMap)[1],
                !.id_map = _load_index(fIndex, fMap)[2]]

\* C1: lockstep.  While a process runs, every identifier i of the
\* identifier map addresses an existing row i of the index, and that row is
\* the vector of the chunk recorded under i.
C1_Lockstep ==
  pc = "up" =>
    \A key \in DOMAIN id_map :
      /\ key[2] < Len(index.rows)
      /\ index.rows[key[2] + 1] = ChunkPoint[id_map[key].text]

\* C2: persist/reload round trip.  After an add that stored at least one
\* chunk and returned, a fresh store loaded from the two files answers every
\* query and every k with the records the running store answers with.
C2_RoundTrip ==
  (pc = "up" /\ ret.op = "add" /\ ret.status = "ok" /\ ret.calls >= 1) =>
    \A query \in Queries, k \in 1..MaxK :
      search(Reloaded, query, k, Returned).out
        = search(Store, query, k, Returned).out

\* C3: load-at-startup fallback.  A start never raises, and when the index
\* file or the map file cannot be deserialized the store starts with an empty
\* index and an empty map, and a search on it returns nothing.
C3_LoadFallback ==
  ret.op = "start" =>
    /\ ret.status = "ok"
    /\ (fIndex.st # "ok" \/ fMap.st # "ok") =>
         /\ index.rows = <<>>
         /\ id_map = EmptyDict
         /\ \A query \in Queries, k \in 1..MaxK, o \in QueryOutcomes :
              search(Store, query, k, o).out = <<>>

\* C4: an add_chunk whose embedding request fails (first chunk of an add, so
\* the store is as the caller left it) raises, leaves the identifier map and
\* the index as they were, and writes nothing to disk.
C4_AddChunkNoPartialState ==
  [][(ret'.op = "add" /\ ret'.calls = 1 /\ ret'.pos = 1
        /\ ret'.status \notin {"crash", "rejected"}) =>
       /\ ret'.status = "error"
       /\ id_map' = id_map
       /\ index' = index
       /\ <<fIndex', fMap', fChunks', spend'>>
            = <<fIndex, fMap, fChunks, spend>>]_vars

\* C5: an add in which the embedding of some chunk fails leaves the index
\* and the identifier map as they were, in memory and on disk.
C5_AddNoPartialIndex ==
  [][(ret'.op = "add" /\ ret'.status = "error") =>
       /\ index' = index
       /\ id_map' = id_map
       /\ fIndex' = fIndex
       /\ fMap' = fMap]_vars

\* C6: an add in which the embedding of some chunk fails appends nothing to
\* the memory log and rewrites neither memory.json nor the backup.
C6_AddLeavesLog ==
  [][(ret'.op = "add" /\ ret'.status = "error") =>
       /\ memory' = memory
       /\ fMem' = fMem
       /\ fBackup' = fBackup]_vars

\* an add failed at its second chunk while the log held an entry
C6_Witness ==
  /\ ret.op = "add"
  /\ ret.status = "error"
  /\ ret.pos = 2
  /\ Len(memory) >= 1
  /\ fMem.st = "ok"

\* the query is closer to the vector v than to every other row, and v is
\* stored once
StrictlyClosest(query, v) ==
  /\ Cardinality({j \in 1..Len(index.rows) : index.rows[j] = v}) = 1
  /\ \A j \in 1..Len(index.rows) :
       index.rows[j] # v =>
         Dist(QueryPoint[query], v) < Dist(QueryPoint[query], index.rows[j])

\* C7: top hit.  For every record of the identifier map, a query whose
\* vector is strictly closest to the vector of that record's chunk gets that
\* record as the first result, for every k >= 1.
C7_TopHit ==
  pc = "up" =>
    \A key \in DOMAIN id_map, query \in Queries, k \in 1..MaxK :
      StrictlyClosest(query, ChunkPoint[id_map[key].text]) =>
        LET out == search(Store, query, k, Returned).out
        IN out # <<>> /\ out[1] = id_map[key]

\* C8: store search on a non-empty store.  When the embedding request
\* returns, search returns; the labels of the nearest-neighbour search that
\* are keys of the identifier map give the results, one record each, in label
\* order, which is ascending distance of the addressed rows; every other
\* label (the marker -1 too) is skipped; so at most k records are returned.
C8_StoreSearch ==
  (pc = "up" /\ DOMAIN id_map # {}) =>
    \A query \in Queries, k \in 1..MaxK, o \in QueryOutcomes :
      LET r == search(Store, query, k, o)
          e == embed_text(spend, QueryPoint[query], o)
          labels == faiss_search(index, e.vec, k)
          keep == {p \in 1..k : IntKey(labels[p]) \in DOMAIN id_map}
          Nth(p) == 1 + Cardinality({p2 \in keep : p2 < p})
      IN e.ok =>
           /\ r.status = "ok"
           /\ Len(r.out) = Cardinality(keep)
           /\ Len(r.out) <= k
           /\ \A p \in keep : r.out[Nth(p)] = id_map[IntKey(labels[p])]
           /\ \A p \in keep : \A p2 \in keep :
                p < p2 =>
                  Dist(index.rows[labels[p] + 1], e.vec.x)
                    <= Dist(index.rows[labels[p2] + 1], e.vec.x)

\* a search returned two records at different distances after skipping the
\* label of a row that has no int key
C8_Witness ==
  /\ ret.op = "search"
  /\ ret.status = "ok"
  /\ ret.calls = 1
  /\ LET query == ret.args[1]
         x == QueryPoint[query]
         labels == faiss_search(index, [d |-> EMBED_DIM, x |-> x], MaxK)
         out == search(Store, query, ret.args[2], Returned).out
     IN /\ Len(out) >= 1
        /\ \E p \in 1..MaxK :
             labels[p] >= 0 /\ IntKey(labels[p]) \notin DOMAIN id_map

\* C9: search on a store with no entries returns the empty sequence and
\* makes no embedding request (so it cannot raise and costs nothing),
\* whatever the query, k and the state of the collaborator.
C9_EmptyStoreSearch ==
  (pc = "up" /\ DOMAIN id_map = {}) =>
    /\ \A query \in Queries, k \in 1..MaxK, o \in QueryOutcomes :
         LET r == search(Store, query, k, o)
         IN /\ r.status = "ok"
            /\ r.out = <<>>
            /\ r.calls = 0
            /\ r.S = Store
    /\ ret.op = "search" => (ret.status = "ok" /\ ret.calls = 0)

\* a search was made on a store without entries whose log is not empty
C9_Witness ==
  /\ pc = "up"
  /\ ret.op = "search"
  /\ DOMAIN id_map = {}
  /\ ret.calls = 0
  /\ memory # <<>>

\* the input texts that contain the query when case is ignored
ExpectedMatch ==
  [q \in Queries |-> IF q = <<"b">> THEN {"short", "long"} ELSE {"short"}]

\* C10: the cascade of MemoryManager.search.  When the store search returns
\* records they are returned unchanged; when it returns none, the result is
\* the first k log entries, in log order, whose text contains the query
\* ignoring case, and the fallback raises nothing and makes no request.
C10_Cascade ==
  pc = "up" =>
    \A query \in Queries, k \in 1..MaxK, o \in QueryOutcomes :
      LET st == search(Store, query, k, o)
          r == manager_search(Store, memory, query, k, o)
          M == {i \in 1..Len(memory) : memory[i].text \in ExpectedMatch[query]}
          n == IF k < Cardinality(M) THEN k ELSE Cardinality(M)
          Pick(j) == CHOOSE i \in M : Cardinality({i2 \in M : i2 < i}) = j - 1
      IN st.status = "ok" =>
           /\ r.status = "ok"
           /\ r.calls = st.calls
           /\ r.S = st.S
           /\ st.out # <<>> => r.out = st.out
           /\ st.out = <<>> =>
                /\ Len(r.out) = n
                /\ \A j \in 1..n : r.out[j] = memory[Pick(j)]

\* a search fell back to the log after the store skipped every label, and
\* the log held more matching entries than k
C10_Witness ==
  /\ ret.op = "search"
  /\ ret.status = "ok"
  /\ ret.calls = 1
  /\ LET query == ret.args[1]
         k == ret.args[2]
     IN /\ search(Store, query, k, Returned).out = <<>>
        /\ Cardinality({i \in 1..Len(memory) :
                          memory[i].text \in ExpectedMatch[query]}) > k
        /\ query = <<"a", "B">> \/ k = 1

\* C11: a failing embedding request during a search.  On a store with at
\* least one entry, a search whose embedding request fails raises, from the
\* store and from the manager, after exactly one request; nothing is
\* returned, the keyword fallback included; and a search step that raised
\* leaves the index, the identifier map and the memory log as they were.
C11_SearchFailure ==
  /\ [](pc = "up" /\ DOMAIN id_map # {} =>
          \A query \in Queries, k \in 1..MaxK, o \in QueryOutcomes :
            LET e == embed_text(spend, QueryPoint[query], o)
                st == search(Store, query, k, o)
                r == manager_search(Store, memory, query, k, o)
            IN ~e.ok =>
                 /\ st.status = "error" /\ st.calls = 1 /\ st.out = <<>>
                 /\ r.status = "error" /\ r.calls = 1 /\ r.out = <<>>
                 /\ r.S.index = index /\ r.S.id_map = id_map
                 /\ r.S.fIndex = fIndex /\ r.S.fMap = fMap)
  /\ [][(ret'.op = "search" /\ ret'.status = "error") =>
          /\ DOMAIN id_map # {}
          /\ ret'.calls = 1
          /\ <<index', id_map', memory'>> = <<index, id_map, memory>>]_vars

\* a search raised on a store with entries while the log held an entry the
\* keyword fallback would have returned
C11_Witness ==
  /\ ret.op = "search"
  /\ ret.status = "error"
  /\ DOMAIN id_map # {}
  /\ KeywordHits(memory, ret.args[1], ret.args[2]) # <<>>

\* C12: a successful add.  An add that returned True for a text of n chunks,
\* on an identifier map of m entries, leaves the old entries as they were and
\* adds the n int keys m .. m+n-1, the i-th chunk under m+i-1; it appends one
\* entry with the text, the source and the metadata of the call, whose n
\* chunk records are the chunks in order, each with the text and the
\* metadata of the identifier-map record of its identifier, the metadata
\* holding a timestamp, a source and every pair of the caller's metadata;
\* latest(1) is then that entry.
C12_Ingestion ==
  [][(ret'.op = "add" /\ ret'.status = "ok") =>
       LET chunks == ChunksOf[ret'.args[1]]
           n == Len(chunks)
           m == Cardinality(DOMAIN id_map)
           entry == memory'[Len(memory')]
       IN /\ DOMAIN id_map' = DOMAIN id_map \cup {IntKey(m + i - 1) : i \in 1..n}
          /\ Cardinality(DOMAIN id_map') = m + n
          /\ \A key \in DOMAIN id_map : id_map'[key] = id_map[key]
          /\ memory' = Append(memory, entry)
          /\ entry.text = ret'.args[1]
          /\ \E call \in AddCalls :
               /\ call.text = entry.text
               /\ entry.source = call.source
               /\ entry.metadata = call.metadata
               /\ entry.timestamp = call.timestamp
          /\ Len(entry.chunks) = n
          /\ \A i \in 1..n :
               LET rec == id_map'[IntKey(m + i - 1)]
                   c == entry.chunks[i]
               IN /\ c.text = chunks[i]
                  /\ rec.text = chunks[i]
                  /\ c.metadata = rec.metadata
                  /\ {"timestamp", "source"} \subseteq DOMAIN c.metadata
                  /\ \A key \in DOMAIN entry.metadata :
                       c.metadata[key] = entry.metadata[key]
          /\ latest(memory', 1) = <<entry>>]_vars

\* an add of the two-chunk text returned True on a reloaded map (string
\* keys) and a log that already held an entry
C12_Witness ==
  /\ ret.op = "add"
  /\ ret.status = "ok"
  /\ ret.args[1] = "long"
  /\ Len(memory) = 2
  /\ \E key \in DOMAIN id_map : key[1] = "str"

\* C13: identifier assignment.  While a process runs, the keys of the
\* identifier map are exactly the integers 0 .. n-1, n the size of the map.
C13_DenseIntIds ==
  pc = "up" =>
    DOMAIN id_map = {IntKey(i) : i \in 0..(Cardinality(DOMAIN id_map) - 1)}

C15_LogFiles ==
  (pc = "up" /\ ret.op = "add" /\ ret.status = "ok") =>
    /\ fMem.st = "ok"
    /\ fBackup = fMem
    /\ fMem.data = memory
    /\ _load_memory(fMem) = memory
    /\ _load_memory(fBackup) = memory

\* an add returned True and wrote a log of two entries over files that held
\* one
C15_Witness ==
  /\ pc = "up"
  /\ ret.op = "add"
  /\ ret.status = "ok"
  /\ fBackup.st = "ok"
  /\ Len(fBackup.data) = 2
  /\ Len(fMem.data) = 2

C17_Latest ==
  pc = "up" =>
    \A n \in 0..MaxK :
      LET L == Len(memory)
          c == IF n < L THEN n ELSE L
      IN latest(memory, n) = SubSeq(memory, L - c + 1, L)

\* the words of a text built from pieces: its maximal runs of characters
\* that are no whitespace; open: no whitespace since the last word
RECURSIVE WordsFrom(_, _, _, _)
WordsFrom(pieces, i, words, open) ==
  IF i > Len(pieces) THEN words
  ELSE LET p == pieces[i]
           b == Body(p)
           words2 == IF b = <<>> THEN words
                     ELSE IF open /\ words # <<>>
                       THEN [words EXCEPT ![Len(words)] = @ \o b]
                       ELSE Append(words, b)
           open2 == (b # <<>> \/ open) /\ p.sep = <<>>
       IN WordsFrom(pieces, i + 1, words2, open2)

\* the elements of a sequence of texts joined by single spaces
RECURSIVE JoinSp(_)
JoinSp(texts) ==
  IF texts = <<>> THEN <<>>
  ELSE IF Len(texts) = 1 THEN texts[1]
  ELSE texts[1] \o <<" ">> \o JoinSp(Tail(texts))

\* the sentences of a text given by its words: a sentence ends with a word
\* that ends with a terminal character, or with the text
RECURSIVE SentencesFrom(_, _, _, _)
SentencesFrom(words, i, sentences, cur) ==
  IF i > Len(words)
    THEN IF cur = <<>> THEN sentences ELSE Append(sentences, cur)
    ELSE LET w == words[i]
             cur2 == IF cur = <<>> THEN w ELSE cur \o <<" ">> \o w
         IN IF w[Len(w)] \in Terminal
              THEN SentencesFrom(words, i + 1, Append(sentences, cur2), <<>>)
              ELSE SentencesFrom(words, i + 1, sentences, cur2)

\* C18: chunk size.  Every chunk chunk_text returns is at most
\* MAX_CHUNK_SIZE characters long, or is one sentence of the text that is
\* longer than that; every sentence longer than MAX_CHUNK_SIZE is a chunk of
\* its own, as often as it occurs.
C18_ChunkSize ==
  chunker_chunks # "none" =>
    LET sentences == SentencesFrom(WordsFrom(chunker_text, 1, <<>>, FALSE),
                                   1, <<>>, <<>>)
        Count(seq, x) == Cardinality({i \in 1..Len(seq) : seq[i] = x})
    IN /\ \A i \in 1..Len(chunker_chunks) :
            \/ Len(chunker_chunks[i]) <= MAX_CHUNK_SIZE
            \/ \E j \in 1..Len(sentences) : sentences[j] = chunker_chunks[i]
       /\ \A j \in 1..Len(sentences) :
            Len(sentences[j]) > MAX_CHUNK_SIZE =>
              Count(chunker_chunks, sentences[j]) = Count(sentences, sentences[j])

\* chunk_text returned a sentence longer than MAX_CHUNK_SIZE as a chunk and
\* a chunk of exactly MAX_CHUNK_SIZE characters made of two sentences
C18_Witness ==
  /\ chunker_chunks # "none"
  /\ \E i \in 1..Len(chunker_chunks) : Len(chunker_chunks[i]) > MAX_CHUNK_SIZE
  /\ \E i \in 1..Len(chunker_chunks) :
       /\ Len(chunker_chunks[i]) = MAX_CHUNK_SIZE
       /\ \E j \in 1..MAX_CHUNK_SIZE : chunker_chunks[i][j] = " "

\* C19: reconstruction.  The chunks chunk_text returns, joined by single
\* spaces, are the words of the text joined by single spaces (the text with
\* its whitespace runs collapsed and its ends trimmed); no chunk is empty,
\* and a text without a word gives no chunk.
C19_Reconstruction ==
  chunker_chunks # "none" =>
    LET words == WordsFrom(chunker_text, 1, <<>>, FALSE)
    IN /\ JoinSp(chunker_chunks) = JoinSp(words)
       /\ \A i \in 1..Len(chunker_chunks) : chunker_chunks[i] # <<>>
       /\ words = <<>> => chunker_chunks = <<>>

\* chunk_text returned three chunks or more for a text that starts with
\* whitespace and has whitespace runs of two characters
C19_Witness ==
  /\ chunker_chunks # "none"
  /\ Len(chunker_chunks) >= 3
  /\ chunker_text[1].len = 0
  /\ Len(TextFrom(chunker_text)) > Len(JoinSp(chunker_chunks)) + 2

\* C20: fixed dimensionality.  On every store a running process has,
\* add_chunk with an embedding whose length is not the dimensionality of the
\* index raises on it and leaves the rows of the index, the identifier map,
\* the index file and the map file as they were; so does every add that
\* raised on the vector of its first chunk.
C20_Dimension ==
  /\ [](pc = "up" =>
          \A name \in DOMAIN ChunkPoint, o \in Outcomes :
            LET e == embed_text(spend, ChunkPoint[name], o)
                r == add_chunk(Store, name, EmptyDict, o)
            IN (e.ok /\ e.vec.d # index.d) =>
                 /\ r.status = "rejected"
                 /\ r.S.index = index
                 /\ r.S.id_map = id_map
                 /\ r.S.fIndex = fIndex
                 /\ r.S.fMap = fMap)
  /\ [][(ret'.op = "add" /\ ret'.status = "rejected" /\ ret'.pos = 1) =>
          /\ pc' = "up"
          /\ <<index', id_map', fIndex', fMap'>>
               = <<index, id_map, fIndex, fMap>>]_vars

\* an add was rejected at its first chunk, on the length of the vector, by a
\* store with rows, entries and both files
C20_Witness ==
  /\ ret.op = "add"
  /\ ret.status = "rejected"
  /\ ret.pos = 1
  /\ index.rows # <<>>
  /\ DOMAIN id_map # {}
  /\ fIndex.st = "ok"
  /\ fMap.st = "ok"

\* C21: load and overwrite of the memory log.  A start never raises; over a
\* memory.json that is missing, unparsable or not a list it gives an empty
\* log whatever the backup holds, and leaves both files as they were.  The
\* first add that returns True on an empty log writes exactly its one entry
\* to memory.json and to the backup, whatever they held.
C21_LoadAndOverwrite ==
  /\ [](ret.op = "start" =>
          /\ ret.status = "ok"
          /\ pc = "up"
          /\ fMem.st # "ok" => memory = <<>>
          /\ fMem.st = "ok" => memory = fMem.data)
  /\ [][ret'.op = "start" => UNCHANGED <<fMem, fBackup>>]_vars
  /\ [][(ret'.op = "add" /\ ret'.status = "ok" /\ memory = <<>>) =>
          /\ Len(memory') = 1
          /\ memory'[1].text = ret'.args[1]
          /\ fMem' = Ok(memory')
          /\ fBackup' = Ok(memory')]_vars

\* after memory.json was lost or damaged, a new process added the two-chunk
\* text: memory.json and the backup hold that one entry, while the identifier
\* map still holds the chunk of the entry that only the old backup had
C21_Witness ==
  /\ pc = "up"
  /\ ret.op = "add"
  /\ ret.status = "ok"
  /\ damages = 1
  /\ Len(memory) = 1
  /\ memory[1].text = "long"
  /\ fBackup = Ok(memory)
  /\ \E key \in DOMAIN id_map :
       key[1] = "str" /\ id_map[key].text = "short"


\* what add_chunk does with a chunk when today's recorded total is `total`
\* and the embedding request returns with `tokens` prompt tokens
GuardedAdd(total, name, tokens) ==
  add_chunk([Store EXCEPT !.spend = total], name, EmptyDict,
            [kind |-> "ok", tokens |-> tokens])

\* C22: for any sequence of cost-logging calls on one day the recorded daily
\* total equals the sum of all costs applied so far, the total never
\* decreases, every call that reaches _apply_cost while the resulting total
\* exceeds DAILY_SPEND_LIMIT raises, and once the total is above the limit
\* every embedding request with a positive token count is aborted and adds
\* nothing to the vector index.
C22_RecordedTotal ==
  guard_total * TokensPerMicroDollar = guard_tokens

C22_NeverDecreases ==
  [][guard_total' >= guard_total]_vars

C22_RaisesAboveLimit ==
  [][(guard_tokens' # guard_tokens /\ guard_total' > DAILY_SPEND_LIMIT)
       => guard_raised']_vars

C22_AbortedAboveLimit ==
  guard_total > DAILY_SPEND_LIMIT =>
    \A name \in TextNames, tokens \in GuardTokens \ {0} :
      \A r \in {GuardedAdd(guard_total, name, tokens)} :
        /\ r.status = "error"
        /\ r.S.index = index
        /\ r.S.id_map = id_map

C22_HardDailyCap ==
  /\ []C22_RecordedTotal
  /\ C22_NeverDecreases
  /\ C22_RaisesAboveLimit
  /\ []C22_AbortedAboveLimit

====
